---- MODULE Spec2Model ----
(***************************************************************************)
(* Model of the clovis application launcher (src/src/main.rs).             *)
(*                                                                         *)
(* One run of the binary is: load_config (falling back to the empty        *)
(* Config), dispatch on the sub-command, save_config when                  *)
(* handle_edit_command returned true, exit.  The configuration file        *)
(* outlives the process, so a behaviour is a sequence of runs over one     *)
(* file.  What the host answers to the helper binaries (which, pgrep,      *)
(* gtk-launch), whether HOME is set and whether the disk accepts a write   *)
(* are inputs of a run.                                                    *)
(***************************************************************************)
EXTENDS Integers, Sequences, FiniteSets, TLC

VARIABLES file,     \* the configuration file on disk
          pc,       \* "start" | "loaded" | "exited": position of the run in main
          config,   \* the in-memory Config (environments: name -> Vec of AppRef)
          config0,  \* the Config as main got it from load_config / the fallback
          loadErr,  \* load_config returned Err in this run
          cmd,      \* the parsed command line (Cli::parse)
          host,     \* what the host answered during this run
          out,      \* what the run printed, logged and attempted, in order
          ret,      \* what handle_edit_command returned: "none" | "true" | "false"
          saved,    \* save_config was called in this run
          exit      \* "-" | "ok" | "err" | "panic": how the run ended

vars == <<file, pc, config, config0, loadErr, cmd, host, out, ret, saved, exit>>

-----------------------------------------------------------------------------
(* Bounds and the finite universe of names.                                *)

MaxApps == 3                      \* longest app sequence of an environment

EnvNames == {"dev", "work"}       \* environment names a file or a command may use

DESKTOP == ".desktop"

\* An AppRef is a string; it is modelled as its text cut in two pieces so that
\* ends_with / strip_suffix are computed: <<"foo", ".desktop">> is
\* "foo.desktop".
AppRefs == {<<"foo">>, <<"foo", DESKTOP>>, <<"bar">>}

Actions == {"add", "remove", "rename"}   \* "rename" stands for any other string

NoApp == <<>>
NoEnv == "-"

-----------------------------------------------------------------------------
(* Strings.                                                                *)

EndsWithDesktop(app) == Len(app) >= 1 /\ app[Len(app)] = DESKTOP

\* app.strip_suffix(".desktop").unwrap_or(app)
StripSuffix(app) == IF EndsWithDesktop(app) THEN SubSeq(app, 1, Len(app) - 1) ELSE app

Stems == {StripSuffix(a) : a \in AppRefs}

-----------------------------------------------------------------------------
(* Vec<String>.                                                            *)

Contains(s, x) == \E i \in 1..Len(s) : s[i] = x

\* apps.iter().position(|x| x == app): the first index, 0 for None
Position(s, x) ==
    IF Contains(s, x) THEN CHOOSE i \in 1..Len(s) : s[i] = x /\ \A j \in 1..(i - 1) : s[j] # x
    ELSE 0

VecSwapRemove(s, pos) ==
    IF pos = Len(s) THEN SubSeq(s, 1, Len(s) - 1)
    ELSE [i \in 1..(Len(s) - 1) |-> IF i = pos THEN s[Len(s)] ELSE s[i]]

\* Vec::remove(pos): deletes the element, shifting the later ones left
VecRemove(s, pos) == SubSeq(s, 1, pos - 1) \o SubSeq(s, pos + 1, Len(s))

\* Vec::push
VecPush(s, x) == Append(s, x)

-----------------------------------------------------------------------------
(* Config and its file.                                                    *)

EmptyConfig == [e \in {} |-> <<>>]

SeqsUpTo(n) == UNION {[1..k -> AppRefs] : k \in 0..n}

Configs == UNION {[D -> SeqsUpTo(MaxApps)] : D \in SUBSET EnvNames}

\* serde_yaml::to_string: the map written as a YAML mapping, a set of
\* (key, sequence) entries
ToYaml(c) == {<<e, c[e]>> : e \in DOMAIN c}

\* serde_yaml::from_str on a well-formed document
FromYaml(doc) == [e \in {p[1] : p \in doc} |-> (CHOOSE p \in doc : p[1] = e)[2]]

Absent == [kind |-> "absent", doc |-> {}]
Corrupt == [kind |-> "corrupt", doc |-> {}]
Yaml(doc) == [kind |-> "yaml", doc |-> doc]

Files == {Absent, Corrupt} \cup {Yaml(ToYaml(c)) : c \in Configs}

\* load_config: Err when the file cannot be opened or parsed
LoadConfig(f) ==
    IF f.kind = "yaml" THEN [ok |-> TRUE, config |-> FromYaml(f.doc)]
    ELSE [ok |-> FALSE, config |-> EmptyConfig]

DiskOutcomes == {"ok", "nocreate", "nowrite"}

\* save_config: File::create truncates the file, write_all fills it
SaveConfig(f, c, disk) ==
    CASE disk = "nocreate" -> [ok |-> FALSE, file |-> f]
      [] disk = "nowrite"  -> [ok |-> FALSE, file |-> Corrupt]
      [] OTHER             -> [ok |-> TRUE, file |-> Yaml(ToYaml(c))]

-----------------------------------------------------------------------------
(* The host.                                                               *)

\* home: HOME is set;  which / pgrep / gtk: the helper binary can be executed;
\* installed: the CommandRefs `which` finds and the DesktopRefs that exist in
\* one of the five candidate directories;  running: the names pgrep -f matches;
\* disk: what the file system does on a save;  editor: how $EDITOR ended.
\* A run records here what it consulted; the fields it never reads stay at
\* their default.
DefaultHost ==
    [home |-> TRUE, which |-> TRUE, pgrep |-> TRUE, gtk |-> TRUE,
     installed |-> {}, running |-> {}, disk |-> "ok", editor |-> "ok"]

Ev(kind, env, app) == <<kind, env, app>>

Events(kind) == SelectSeq(out, LAMBDA e : e[1] = kind)

-----------------------------------------------------------------------------
(* Availability Checker and Process Probe.  Each answers "yes", "no", or   *)
(* "panic" when the code unwinds instead of returning.                     *)

\* is_command_available: which <cmd>; .status().map(success).unwrap_or(false)
is_command_available(app, h) ==
    IF ~h.which THEN "no"
    ELSE IF app \in h.installed THEN "yes" ELSE "no"

\* is_desktop_file_available: std::env::var("HOME").unwrap(), then the
\* candidate directories in order, the first hit returning true
is_desktop_file_available(app, h) ==
    IF ~h.home THEN "panic"
    ELSE IF app \in h.installed THEN "yes" ELSE "no"

\* the dispatch on the suffix, as written in handle_edit_command and
\* validate_config
AppAvailable(app, h) ==
    IF EndsWithDesktop(app) THEN is_desktop_file_available(app, h)
    ELSE is_command_available(app, h)

\* is_app_running: pgrep -f <stem>; .output().expect(..); !stdout.is_empty()
is_app_running(app, h) ==
    IF ~h.pgrep THEN "panic"
    ELSE IF StripSuffix(app) \in h.running THEN "yes" ELSE "no"

-----------------------------------------------------------------------------
(* Editor.  A result is [config, ret, out, exit].                          *)

EditResult(c, r, o, x) == [config |-> c, ret |-> r, out |-> o, exit |-> x]

EnvGuardOff(c, env) == TRUE

\* config.environments.contains_key(env)
ContainsKey(c, env) == env \in DOMAIN c

\* .entry(env).or_insert_with(Vec::new)
EntryOrInsert(c, env) == IF env \in DOMAIN c THEN c ELSE [e \in DOMAIN c \cup {env} |-> IF e = env THEN <<>> ELSE c[e]]

\* the "add" arm
AddBranch(c, env, app, o) ==
    LET c1 == EntryOrInsert(c, env)
    IN IF Contains(c1[env], app)
       THEN EditResult(c1, "false", o \o <<Ev("error-present", env, app)>>, "ok")
       ELSE EditResult([c1 EXCEPT ![env] = VecPush(c1[env], app)], "true",
                       o \o <<Ev("added", env, app)>>, "ok")

RemoveBranchFallThrough(c, env, app, o) ==
    IF env \in DOMAIN c /\ Position(c[env], app) # 0
    THEN EditResult([c EXCEPT ![env] = VecRemove(c[env], Position(c[env], app))],
                    "true", o \o <<Ev("removed", env, app)>>, "ok")
    ELSE EditResult(c, "true", o \o <<Ev("not-found", env, app)>>, "ok")

\* the "remove" arm: get_mut(env) is None falls through to Ok(true)
RemoveBranch(c, env, app, o) ==
    IF env \in DOMAIN c
    THEN LET pos == Position(c[env], app)
         IN IF pos # 0
            THEN EditResult([c EXCEPT ![env] = VecRemove(c[env], pos)], "true",
                            o \o <<Ev("removed", env, app)>>, "ok")
            ELSE EditResult(c, "false", o \o <<Ev("not-found", env, app)>>, "ok")
    ELSE EditResult(c, "true", o, "ok")

handle_edit_command(c, env, action, app, h) ==
    IF ~ContainsKey(c, env)
    THEN EditResult(c, "false", <<Ev("error-no-env", env, NoApp)>>, "ok")
    ELSE LET avail == AppAvailable(app, h)
             o == IF avail = "no" THEN <<Ev("warn", env, app)>> ELSE <<>>
         IN CASE avail = "panic"   -> EditResult(c, "none", <<>>, "panic")
              [] action = "add"    -> AddBranch(c, env, app, o)
              [] action = "remove" -> RemoveBranch(c, env, app, o)
              [] OTHER -> EditResult(c, "false", o \o <<Ev("error-action", env, app)>>, "ok")

-----------------------------------------------------------------------------
(* Launcher.  A result is [out, exit].                                     *)

RECURSIVE LaunchLoop(_, _, _, _, _, _)
\* the for loop of launch_apps from index i on, o being what was emitted so far
LaunchLoop(apps, i, env, force, h, o) ==
    IF i > Len(apps) THEN [out |-> o \o <<Ev("launched-env", env, NoApp)>>, exit |-> "ok"]
    ELSE LET app == apps[i]
             running == IF force THEN "no" ELSE is_app_running(app, h)
         IN CASE running = "panic" -> [out |-> o, exit |-> "panic"]
              [] running = "yes" ->
                   LaunchLoop(apps, i + 1, env, force, h, o \o <<Ev("skip", env, app)>>)
              [] OTHER ->
                   LET o1 == o \o <<Ev("launching", env, app), Ev("spawn", env, app)>>
                   IN IF h.gtk THEN LaunchLoop(apps, i + 1, env, force, h, o1)
                      ELSE [out |-> o1, exit |-> "panic"]

launch_apps(c, env, force, h) ==
    IF env \in DOMAIN c THEN LaunchLoop(c[env], 1, env, force, h, <<>>)
    ELSE [out |-> <<Ev("error-no-env", env, NoApp)>>, exit |-> "ok"]

\* print_launch_help_and_available_environments: the help text (one event),
\* then the keys
print_launch_help(c) == [out |-> <<Ev("help", NoEnv, NoApp)>>, exit |-> "ok"]

\* env.is_none() || a --help / -h argument; Cli::parse answers --help itself
\* and exits before the dispatch, which leaves the missing env as the one way in
handle_launch_command(c, env, force, h) ==
    IF env = NoEnv THEN print_launch_help(c) ELSE launch_apps(c, env, force, h)

-----------------------------------------------------------------------------
(* Validator.  A result is [out, exit].                                    *)

\* the (env, app) pairs in the order the nested loops visit them, the
\* environments taken in the order `order` (HashMap iteration order)
RECURSIVE Pairs(_, _)
Pairs(c, order) ==
    IF order = <<>> THEN <<>>
    ELSE [i \in 1..Len(c[Head(order)]) |-> <<Head(order), c[Head(order)][i]>>]
         \o Pairs(c, Tail(order))

RECURSIVE ValidateLoop(_, _, _, _, _)
ValidateLoop(pairs, i, h, allValid, o) ==
    IF i > Len(pairs)
    THEN [out |-> IF allValid THEN o \o <<Ev("all-valid", NoEnv, NoApp)>> ELSE o,
          exit |-> "ok"]
    ELSE LET avail == AppAvailable(pairs[i][2], h)
         IN CASE avail = "panic" -> [out |-> o, exit |-> "panic"]
              [] avail = "no" ->
                   ValidateLoop(pairs, i + 1, h, FALSE,
                                o \o <<Ev("warn", pairs[i][1], pairs[i][2])>>)
              [] OTHER -> ValidateLoop(pairs, i + 1, h, allValid, o)

validate_config(c, order, h) == ValidateLoop(Pairs(c, order), 1, h, TRUE, <<>>)

\* the iteration orders of a HashMap with these keys
Orders(keys) ==
    {s \in UNION {[1..k -> keys] : k \in {Cardinality(keys)}} :
        \A i, j \in 1..Len(s) : i # j => s[i] # s[j]}

\* show_config prints every environment and app
show_config(c, order) ==
    [out |-> [i \in 1..Len(Pairs(c, order)) |-> Ev("show", Pairs(c, order)[i][1], Pairs(c, order)[i][2])],
     exit |-> "ok"]

-----------------------------------------------------------------------------
(* The runs.                                                               *)

Command(name, env, action, app, force) ==
    [name |-> name, env |-> env, action |-> action, app |-> app, force |-> force]

NoCommand == Command("-", NoEnv, "-", NoApp, FALSE)

Init ==
    /\ file \in Files
    /\ pc = "start"
    /\ config = EmptyConfig
    /\ config0 = EmptyConfig
    /\ loadErr = FALSE
    /\ cmd = NoCommand
    /\ host = DefaultHost
    /\ out = <<>>
    /\ ret = "none"
    /\ saved = FALSE
    /\ exit = "-"

\* main, lines 71-76: load_config(..).unwrap_or_else(empty Config)
Load ==
    /\ pc = "start"
    /\ pc' = "loaded"
    /\ config' = LoadConfig(file).config
    /\ config0' = LoadConfig(file).config
    /\ loadErr' = ~LoadConfig(file).ok
    /\ UNCHANGED <<file, cmd, host, out, ret, saved, exit>>

\* Commands::Show
Show ==
    /\ pc = "loaded"
    /\ \E order \in Orders(DOMAIN config) :
          out' = show_config(config, order).out
    /\ cmd' = Command("show", NoEnv, "-", NoApp, FALSE)
    /\ pc' = "exited"
    /\ exit' = "ok"
    /\ UNCHANGED <<file, config, config0, loadErr, host, ret, saved>>

\* what a launch can consult: pgrep only without --force, its matches only
\* when it can be executed
LaunchHosts(env, force) ==
    {h \in {[DefaultHost EXCEPT !.pgrep = p, !.gtk = g, !.running = r] :
               p \in BOOLEAN, g \in BOOLEAN, r \in SUBSET Stems} :
        /\ ~h.pgrep => h.running = {}
        /\ (force \/ env = NoEnv) => h.pgrep /\ h.running = {}
        /\ env = NoEnv => h.gtk}

\* Commands::Launch { env, force }
Launch ==
    /\ pc = "loaded"
    /\ \E env \in EnvNames \cup {NoEnv}, force \in BOOLEAN :
        \E h \in LaunchHosts(env, force) :
          LET r == handle_launch_command(config, env, force, h)
          IN /\ cmd' = Command("launch", env, "-", NoApp, force)
             /\ host' = h
             /\ out' = r.out
             /\ exit' = r.exit
    /\ pc' = "exited"
    /\ UNCHANGED <<file, config, config0, loadErr, ret, saved>>

\* the answers of `which` count only when it can be executed, the desktop
\* files only when HOME is set
Consultable(hm, w) ==
    {a \in AppRefs : IF EndsWithDesktop(a) THEN hm ELSE w}

ValidateHosts ==
    UNION {{[DefaultHost EXCEPT !.home = hm, !.which = w, !.installed = ins] :
               ins \in SUBSET Consultable(hm, w)} :
           hm \in BOOLEAN, w \in BOOLEAN}

\* Commands::Validate
Validate ==
    /\ pc = "loaded"
    /\ \E order \in Orders(DOMAIN config), h \in ValidateHosts :
          LET r == validate_config(config, order, h)
          IN /\ host' = h
             /\ out' = r.out
             /\ exit' = r.exit
    /\ cmd' = Command("validate", NoEnv, "-", NoApp, FALSE)
    /\ pc' = "exited"
    /\ UNCHANGED <<file, config, config0, loadErr, ret, saved>>

EditHosts(app) ==
    {h \in ValidateHosts :
        /\ h.installed \subseteq {app}
        /\ EndsWithDesktop(app) => h.which
        /\ ~EndsWithDesktop(app) => h.home}

\* Commands::Edit { env, action, app }, lines 86-92: save_config exactly when
\* handle_edit_command returned Ok(true)
Edit ==
    /\ pc = "loaded"
    /\ \E env \in EnvNames, action \in Actions, app \in AppRefs :
        \E h \in EditHosts(app), disk \in DiskOutcomes :
          LET r == handle_edit_command(config, env, action, app, h)
              s == SaveConfig(file, r.config, disk)
          IN /\ (action = "add" /\ env \in DOMAIN config) => Len(config[env]) < MaxApps
             /\ cmd' = Command("edit", env, action, app, FALSE)
             /\ config' = r.config
             /\ ret' = r.ret
             /\ IF r.ret = "true"
                THEN /\ saved' = TRUE
                     /\ file' = s.file
                     /\ host' = [h EXCEPT !.disk = disk]
                     /\ out' = IF s.ok THEN r.out \o <<Ev("saved", NoEnv, NoApp)>> ELSE r.out
                     /\ exit' = IF s.ok THEN "ok" ELSE "err"
                ELSE /\ disk = "ok"
                     /\ saved' = FALSE
                     /\ file' = file
                     /\ host' = h
                     /\ out' = IF r.exit = "ok" THEN r.out \o <<Ev("no-changes", NoEnv, NoApp)>>
                               ELSE r.out
                     /\ exit' = r.exit
    /\ pc' = "exited"
    /\ UNCHANGED <<config0, loadErr>>

\* what the user may leave in the file when the editor closes: the file as it
\* was, a file that no longer parses, one environment more (empty) or less
UserEdits(f) ==
    LET c == LoadConfig(f).config
    IN {f, Corrupt}
       \cup {Yaml(ToYaml(EntryOrInsert(c, e))) : e \in EnvNames}
       \cup {Yaml(ToYaml([d \in DOMAIN c \ {e} |-> c[d]])) : e \in DOMAIN c}

EditorOutcomes == {"ok", "fail", "nospawn"}

\* Commands::Config: open_config_in_editor; the program itself writes nothing
ConfigCmd ==
    /\ pc = "loaded"
    /\ \E e \in EditorOutcomes :
          /\ host' = [DefaultHost EXCEPT !.editor = e]
          /\ exit' = IF e = "nospawn" THEN "err" ELSE "ok"
          /\ out' = IF e = "fail" THEN <<Ev("error-editor", NoEnv, NoApp)>> ELSE <<>>
          /\ file' \in IF e = "nospawn" THEN {file} ELSE UserEdits(file)
    /\ cmd' = Command("config", NoEnv, "-", NoApp, FALSE)
    /\ pc' = "exited"
    /\ UNCHANGED <<config, config0, loadErr, ret, saved>>

\* the process ends; the next run starts from the file alone
Exit ==
    /\ pc = "exited"
    /\ pc' = "start"
    /\ config' = EmptyConfig
    /\ config0' = EmptyConfig
    /\ loadErr' = FALSE
    /\ cmd' = NoCommand
    /\ host' = DefaultHost
    /\ out' = <<>>
    /\ ret' = "none"
    /\ saved' = FALSE
    /\ exit' = "-"
    /\ UNCHANGED file

Next == Load \/ Show \/ Launch \/ Validate \/ Edit \/ ConfigCmd \/ Exit

Spec == Init /\ [][Next]_vars

-----------------------------------------------------------------------------
(* Vocabulary of the properties.                                           *)

Ran(name) == pc = "exited" /\ cmd.name = name

NoDup(s) == \A i, j \in 1..Len(s) : i # j => s[i] # s[j]

\* the apps of the events of one kind, in the order they were emitted
AppsOf(kind) == [i \in 1..Len(Events(kind)) |-> Events(kind)[i][3]]

\* the Process Probe reported the app running
ReportedRunning(app) == host.pgrep /\ StripSuffix(app) \in host.running

\* availability as a boolean, every lookup or environment error counting as
\* "unavailable"
Unavailable(app) ==
    IF EndsWithDesktop(app) THEN ~(host.home /\ app \in host.installed)
    ELSE ~(host.which /\ app \in host.installed)

\* the (env, position) pairs of the Config whose app is unavailable
UnavailablePairs ==
    {p \in UNION {{<<e, i>> : i \in 1..Len(config[e])} : e \in DOMAIN config} :
        Unavailable(config[p[1]][p[2]])}

\* the Editor's rejection cases, by the call's inputs
Rejected ==
    \/ cmd.env \notin DOMAIN config0
    \/ cmd.action = "add" /\ Contains(config0[cmd.env], cmd.app)
    \/ cmd.action = "remove" /\ ~Contains(config0[cmd.env], cmd.app)
    \/ cmd.action \notin {"add", "remove"}

-----------------------------------------------------------------------------
(* C1: in one run save_config is called iff the in-memory Config was       *)
(* mutated: handle_edit_command returns true exactly when the Config after *)
(* the call differs from the Config before it and main saves exactly when  *)
(* it returned true; show, launch and validate never save, and neither     *)
(* does any command after a failed load.                                   *)
SavedIffMutated ==
    pc = "exited" =>
        /\ saved <=> (config # config0)
        /\ cmd.name = "edit" =>
              /\ (ret = "true") <=> (config # config0)
              /\ saved <=> (ret = "true")
        /\ cmd.name \in {"show", "launch", "validate"} => ~saved
        /\ loadErr => ~saved

SavedIffMutatedWitness ==
    Ran("edit") /\ ret = "true" /\ saved /\ config # config0 /\ exit = "ok"

(* C2: in every Config reachable by load followed by Editor operations no  *)
(* environment's app sequence holds the same AppRef twice.                 *)
NoDuplicateAppRef == \A e \in DOMAIN config : NoDup(config[e])

(* C3: every rejected Editor operation (unknown environment, add of an app *)
(* already present, remove of an app not present, any other action string) *)
(* returns false and leaves the whole Config as it was.                    *)
RejectedEditReturnsFalse ==
    (Ran("edit") /\ Rejected) => (ret = "false" /\ config = config0)

(* C4: on a duplicate-free sequence s of an existing environment, a        *)
(* successful remove yields s without app, the rest in its original order, *)
(* and a successful add yields s with app appended at the end.             *)
RemoveShiftsAddAppends ==
    (Ran("edit") /\ ret = "true" /\ cmd.env \in DOMAIN config0 /\ NoDup(config0[cmd.env])) =>
        /\ cmd.action = "remove" =>
              config[cmd.env] = SelectSeq(config0[cmd.env], LAMBDA a : a # cmd.app)
        /\ cmd.action = "add" =>
              /\ Len(config[cmd.env]) = Len(config0[cmd.env]) + 1
              /\ config[cmd.env][Len(config[cmd.env])] = cmd.app
              /\ \A i \in 1..Len(config0[cmd.env]) : config[cmd.env][i] = config0[cmd.env][i]

RemoveShiftsAddAppendsWitness ==
    /\ Ran("edit") /\ ret = "true" /\ cmd.action = "remove"
    /\ Len(config0[cmd.env]) = 3 /\ NoDup(config0[cmd.env])
    /\ config0[cmd.env][2] = cmd.app
    /\ config[cmd.env] = <<config0[cmd.env][1], config0[cmd.env][3]>>

(* C5: a launch of an existing environment makes a spawn attempt for       *)
(* exactly the apps for which force is set or the probe reports "not       *)
(* running", in sequence order, and emits a skip notice for exactly the    *)
(* others.                                                                 *)
LaunchSpawnsExactlyEligible ==
    (Ran("launch") /\ cmd.env \in DOMAIN config) =>
        /\ AppsOf("spawn") =
              SelectSeq(config[cmd.env], LAMBDA a : cmd.force \/ ~ReportedRunning(a))
        /\ AppsOf("skip") =
              SelectSeq(config[cmd.env], LAMBDA a : ~cmd.force /\ ReportedRunning(a))

(* C6: a failed spawn does not abort the launch loop: every later app is   *)
(* still processed and the launch completes normally.                      *)
SpawnFailureDoesNotAbort ==
    (Ran("launch") /\ cmd.env \in DOMAIN config /\ host.pgrep /\ ~host.gtk) =>
        /\ exit = "ok"
        /\ Len(AppsOf("spawn")) + Len(AppsOf("skip")) = Len(config[cmd.env])

(* C7: the Process Probe never fails: when pgrep cannot be executed it     *)
(* answers "not running", so a launch without force spawns that app and    *)
(* goes on with the remaining ones.                                        *)
ProbeFailureMeansNotRunning ==
    (Ran("launch") /\ cmd.env \in DOMAIN config /\ ~cmd.force /\ ~host.pgrep /\ host.gtk) =>
        /\ exit = "ok"
        /\ AppsOf("spawn") = config[cmd.env]

(* C8: the Availability Checker never fails for either kind of AppRef, so  *)
(* edit and validate always run to completion.                             *)
AvailabilityNeverFails ==
    (pc = "exited" /\ cmd.name \in {"edit", "validate"}) => exit # "panic"

(* C9: validate is a full scan: with K unavailable (env, app) pairs it     *)
(* emits exactly K warnings, and the "all valid" message iff K = 0.        *)
ValidateFullScan ==
    Ran("validate") =>
        /\ Len(Events("warn")) = Cardinality(UnavailablePairs)
        /\ Len(Events("all-valid")) = (IF Cardinality(UnavailablePairs) = 0 THEN 1 ELSE 0)

(* C10: no Editor operation creates or deletes an environment or touches   *)
(* an environment other than its target; from an empty Config every edit   *)
(* is rejected and the Config stays empty.                                 *)
EditFrame ==
    Ran("edit") =>
        /\ DOMAIN config = DOMAIN config0
        /\ \A e \in DOMAIN config0 : e # cmd.env => config[e] = config0[e]
        /\ config0 = EmptyConfig => (ret = "false" /\ config = EmptyConfig /\ ~saved)

EditFrameWitness ==
    /\ Ran("edit") /\ ret = "true" /\ config # config0
    /\ \E e \in DOMAIN config0 : e # cmd.env /\ config0[e] # <<>>

====
